---- MODULE Spec2Model ----
(***************************************************************************)
(* A model of src/src/main.rs: the vanity-identity search tool.            *)
(*                                                                         *)
(* A u64 is modelled bit by bit, as the set of the positions of its 1      *)
(* bits, so that the shifts, the masks and the big-endian read of the      *)
(* source are computed and not assumed.  A pattern string is a sequence    *)
(* of one-character strings.                                               *)
(***************************************************************************)
EXTENDS Integers, Sequences, FiniteSets, TLC

(***************************************************************************)
(* Bounds of the model.                                                    *)
(***************************************************************************)
\* FIND_PATTERN_BATCH_SIZE (main.rs:217) is 500_000 in the source; the model
\* runs the same loop over a batch scaled down to this many trial tasks.
FIND_PATTERN_BATCH_SIZE == 2

\* BATCH_SIZE (main.rs:269) is 500_000 in the source; scaled down likewise.
BATCH_SIZE == 2

\* The search loops of the source are unbounded; the model stops dispatching
\* after this many batches of the vanity search / of the level search.
MaxBatches == 2
MaxLevelBatches == 3

\* Worker threads of the rayon pool: 1..MaxThreads.
MaxThreads == 2

\* get_hash_cash_level returns a u8; the model draws it from 0..MaxLevel.
MaxLevel == 2

\* At most this many pattern strings on the command line.
MaxPatterns == 2

\* The pure-function specification draws every pattern string of at most
\* this many characters over SampleChars (and the longer ones of LongInputs).
MaxShort == 2
MaxStepTurns == 810

(***************************************************************************)
(* Program constants.                                                      *)
(***************************************************************************)
MAX_PATTERN_LEN == 64 \div 6
ITERS == 5
MaskBuilderLen == 28
U8Modulus == 256
LiteralMask == 63

(***************************************************************************)
(* 64-bit words, bit by bit: a u64 is the set of the positions of its 1    *)
(* bits (0 = least significant, 63 = most significant).                    *)
(***************************************************************************)
BitPos == 0..63

Pow2 == [n \in 0..7 |-> IF n = 0 THEN 1 ELSE IF n = 1 THEN 2 ELSE IF n = 2 THEN 4
                        ELSE IF n = 3 THEN 8 ELSE IF n = 4 THEN 16
                        ELSE IF n = 5 THEN 32 ELSE IF n = 6 THEN 64 ELSE 128]

\* Bit j of the u8 b (j in 0..7).
BitOf(b, j) == (b \div Pow2[j]) % 2

Zero64 == {}

\* `b as u64` for a u8 b.
U8AsU64(b) == {k \in 0..7 : BitOf(b, k) = 1}

\* v << s on u64: the bits shifted beyond bit 63 are lost.
Shl64(v, s) == {k + s : k \in {j \in v : j + s <= 63}}

Or64(a, b) == a \cup b

And64(a, b) == a \cap b

\* u64::count_ones
CountOnes(v) == Cardinality(v)

\* BigEndian::read_u64(&bytes[0..8]): bytes[1] is the most significant byte.
\* Mutant of ReadU64BE: the bytes are read least significant first.
ReadU64LE(bytes) == {k \in BitPos : BitOf(bytes[(k \div 8) + 1], k % 8) = 1}

ReadU64BE(bytes) == {k \in BitPos : BitOf(bytes[8 - (k \div 8)], k % 8) = 1}

(***************************************************************************)
(* Characters and base64.                                                  *)
(***************************************************************************)
UpperChars == <<"A","B","C","D","E","F","G","H","I","J","K","L","M",
                "N","O","P","Q","R","S","T","U","V","W","X","Y","Z">>
LowerChars == <<"a","b","c","d","e","f","g","h","i","j","k","l","m",
                "n","o","p","q","r","s","t","u","v","w","x","y","z">>
DigitChars == <<"0","1","2","3","4","5","6","7","8","9">>

Range(s) == {s[i] : i \in DOMAIN s}

\* char::is_ascii_alphanumeric
IsAsciiAlphanumeric(c) == c \in Range(UpperChars) \cup Range(LowerChars) \cup Range(DigitChars)

\* The standard base64 alphabet of base64::decode.
B64Alphabet == UpperChars \o LowerChars \o DigitChars \o <<"+", "/">>

B64Code(c) == (CHOOSE i \in DOMAIN B64Alphabet : B64Alphabet[i] = c) - 1

\* base64::decode of a string of 27 symbols and one '=': the 6-bit codes of
\* the symbols, concatenated most significant bit first, cut into 20 bytes.
B64StreamBit(cb, s) == BitOf(B64Code(cb[(s \div 6) + 1]), 5 - (s % 6))

B64DecodeByte(cb, n) ==
    LET b(j) == B64StreamBit(cb, 8 * (n - 1) + j) * Pow2[7 - j]
    IN  b(0) + b(1) + b(2) + b(3) + b(4) + b(5) + b(6) + b(7)

Base64Decode(cb) == [n \in 1..(((Len(cb) - 1) * 6) \div 8) |-> B64DecodeByte(cb, n)]

(***************************************************************************)
(* tool_find_pattern: the compilation of one pattern string.               *)
(***************************************************************************)
IsLiteralChar(c) == c = "+" \/ c = "/" \/ IsAsciiAlphanumeric(c)

IsWildcardChar(c) == c = "_" \/ c = "?"

\* The state of the loop over inp.chars(): i, mask_builder, char_builder.
CharLoopInit ==
    [i |-> 0, mask_builder |-> [j \in 0..(MaskBuilderLen - 1) |-> 0],
     char_builder |-> <<>>, err |-> FALSE]

\* One literal character: its symbol gets the full 6-bit mask.
PushLiteral(st, c) ==
    [st EXCEPT !.mask_builder[st.i] = LiteralMask,
               !.char_builder = Append(@, c),
               !.i = @ + 1]

\* Mutant of PushWildcard: the wildcard gets the mask of a literal.
PushWildcardFullMask(st) ==
    [st EXCEPT !.mask_builder[st.i] = LiteralMask,
               !.char_builder = Append(@, "A"),
               !.i = @ + 1]

\* One wildcard character: a zero mask and the placeholder 'A'.
PushWildcard(st) ==
    [st EXCEPT !.mask_builder[st.i] = 0,
               !.char_builder = Append(@, "A"),
               !.i = @ + 1]

\* for c in inp.chars() { ... }, from the k-th character on.
RECURSIVE CharLoop(_, _, _)
CharLoop(inp, k, st) ==
    IF k > Len(inp) THEN st
    ELSE IF ~IsLiteralChar(inp[k]) /\ ~IsWildcardChar(inp[k])
         THEN [st EXCEPT !.err = TRUE]
    ELSE LET st2 == IF IsLiteralChar(inp[k]) THEN PushLiteral(st, inp[k])
                    ELSE PushWildcard(st)
         IN  IF st2.i >= MaskBuilderLen - 1 THEN st2
             ELSE CharLoop(inp, k + 1, st2)

\* for _ in i..27 { push('A') }; push('=')
RECURSIVE PadChars(_, _)
PadChars(cb, i) ==
    IF i >= MaskBuilderLen - 1 THEN Append(cb, "=")
    ELSE PadChars(Append(cb, "A"), i + 1)

\* Mutant of SymbolShift: the symbols are placed a byte apart.
SymbolShiftByBytes(i) == 56 - (8 * i)

\* The shift that puts symbol i of the pattern into the u64.
SymbolShift(i) == 58 - (6 * i)

\* for (i, mask_b) in mask_builder.iter().copied().enumerate().take(10)
RECURSIVE MaskLoop(_, _, _)
MaskLoop(mask_builder, i, mask) ==
    IF i >= 10 \/ i >= MaskBuilderLen THEN mask
    ELSE MaskLoop(mask_builder, i + 1,
                  Or64(mask, Shl64(U8AsU64(mask_builder[i]), SymbolShift(i))))

\* text &= mask
ApplyMask(text, mask) == And64(text, mask)

\* Mutant of CompilePattern: the length of the input is not checked.
CompilePatternAnyLength(inp) ==
    LET st == CharLoop(inp, 1, CharLoopInit)
    IN  IF st.err THEN [ok |-> FALSE]
        ELSE LET char_builder == PadChars(st.char_builder, st.i)
                 mask == MaskLoop(st.mask_builder, 0, Zero64)
                 text == ReadU64BE(Base64Decode(char_builder))
             IN  [ok |-> TRUE,
                  pattern |-> [text |-> ApplyMask(text, mask), mask |-> mask]]

\* The body of `for inp in &opts.patterns`: Err, or the FindPattern pushed.
CompilePattern(inp) ==
    IF Len(inp) > MAX_PATTERN_LEN THEN [ok |-> FALSE]
    ELSE LET st == CharLoop(inp, 1, CharLoopInit)
         IN  IF st.err THEN [ok |-> FALSE]
             ELSE LET char_builder == PadChars(st.char_builder, st.i)
                      mask == MaskLoop(st.mask_builder, 0, Zero64)
                      target_bytes == Base64Decode(char_builder)
                      text == ReadU64BE(target_bytes)
                  IN  [ok |-> TRUE,
                       pattern |-> [text |-> ApplyMask(text, mask), mask |-> mask]]

\* The whole loop `for inp in &opts.patterns`: Err at the first pattern that
\* does not compile (the patterns before it have been compiled and printed
\* by then), or all the patterns pushed.
RECURSIVE CompileAll(_, _, _)
CompileAll(inps, k, patterns) ==
    IF k > Len(inps) THEN [ok |-> TRUE, patterns |-> patterns]
    ELSE LET r == CompilePattern(inps[k])
         IN  IF ~r.ok THEN [ok |-> FALSE, patterns |-> patterns]
             ELSE CompileAll(inps, k + 1, Append(patterns, r.pattern))

(***************************************************************************)
(* find_pattern_sync: the matcher run on one candidate.                    *)
(***************************************************************************)
\* BigEndian::read_u64(&hash[0..8]) & p.mask == p.text
PatternMatches(hash, p) == And64(ReadU64BE(hash), p.mask) = p.text

\* Mutant of PatternLoop: `false` is returned from inside the loop, after the
\* first pattern that does not match.
PatternLoopFirstOnly(bench, data, hash, k) ==
    IF k > Len(data.patterns) THEN [ret |-> FALSE, printed |-> FALSE, index |-> 0]
    ELSE IF PatternMatches(hash, data.patterns[k])
         THEN IF bench THEN [ret |-> FALSE, printed |-> FALSE, index |-> k]
              ELSE [ret |-> data.exit_when_found, printed |-> TRUE, index |-> k]
    ELSE [ret |-> FALSE, printed |-> FALSE, index |-> 0]

\* Mutant of PatternLoop: the loop goes on after a satisfied pattern, and
\* the last satisfied pattern decides.
PatternLoopLastMatch(bench, data, hash, k) ==
    LET sat == {j \in k..Len(data.patterns) : PatternMatches(hash, data.patterns[j])}
    IN  IF sat = {} THEN [ret |-> FALSE, printed |-> FALSE, index |-> 0]
        ELSE [ret |-> ~bench /\ data.exit_when_found, printed |-> ~bench,
              index |-> CHOOSE j \in sat : \A i \in sat : i <= j]

\* for p in &data.patterns { ... } false, from the k-th pattern on.  The
\* result is the value returned, whether the "UID: ... KEY: ..." line was
\* printed, and the index of the pattern whose branch was taken (0: none).
RECURSIVE PatternLoop(_, _, _, _)
PatternLoop(bench, data, hash, k) ==
    IF k > Len(data.patterns) THEN [ret |-> FALSE, printed |-> FALSE, index |-> 0]
    ELSE IF PatternMatches(hash, data.patterns[k])
         THEN IF bench THEN [ret |-> FALSE, printed |-> FALSE, index |-> k]
              ELSE [ret |-> data.exit_when_found, printed |-> TRUE, index |-> k]
    ELSE PatternLoop(bench, data, hash, k + 1)

\* Mutant of FindPatternSync: a match returns true whatever exit_when_found is.
FindPatternSyncStopsAlways(bench, data, hash) ==
    PatternLoop(bench, [data EXCEPT !.exit_when_found = TRUE], hash, 1)

\* Mutant of FindPatternSync: a match never returns true.
FindPatternSyncNeverStops(bench, data, hash) ==
    [PatternLoop(bench, data, hash, 1) EXCEPT !.ret = FALSE]

\* Mutant of FindPatternSync: the BENCH parameter is not looked at.
FindPatternSyncIgnoresBench(bench, data, hash) == PatternLoop(FALSE, data, hash, 1)

FindPatternSync(bench, data, hash) == PatternLoop(bench, data, hash, 1)

\* The RunData of bench(): one pattern, text 0, the top 60 bits constrained.
BenchData ==
    [exit_when_found |-> FALSE,
     patterns |-> <<[text |-> Zero64, mask |-> {k \in BitPos : k >= 4}]>>]

NoData == [exit_when_found |-> FALSE, patterns |-> <<>>]

(***************************************************************************)
(* tool_improve_sec_level: the pieces of one loop iteration.               *)
(***************************************************************************)
\* opts.level as u8
AsU8(n) == n % U8Modulus

\* Mutant of Improves: the best is replaced whenever the batch maximum differs.
ImprovesOnAnyChange(max_level, best_level) == max_level # best_level

\* max_res.level > best.level
Improves(max_level, best_level) == max_level > best_level

\* Mutant of Reached: the comparison is the wrong way round.
ReachedReversed(best_level, want_level) == best_level <= want_level

\* best.level >= want_level
Reached(best_level, want_level) == best_level >= want_level

\* Mutant of IsMaxOf: the reduction keeps the first offset of the batch.
IsFirstOf(sc, m) == m \in DOMAIN sc /\ \A o \in DOMAIN sc : m <= o

\* .max_by(|x, y| x.level.cmp(&y.level)): an offset of the batch whose level
\* is maximal (which one, among equals, is left to the reduction).
IsMaxOf(sc, m) == m \in DOMAIN sc /\ \A o \in DOMAIN sc : sc[o] <= sc[m]

\* start_off & 0x07FF_FFFF < BATCH_SIZE
StepModulus == 134217728
\* Mutant of StepDueAt: the marker is due at the multiples of the modulus.
StepDueAtMultiple(start_off, batch_size) == (start_off % StepModulus) = 0

StepDueAt(start_off, batch_size) == (start_off % StepModulus) < batch_size
StepDue(start_off) == StepDueAt(start_off, BATCH_SIZE)

(***************************************************************************)
(* The inputs of a run.                                                    *)
(***************************************************************************)
\* Pattern strings of the command line: a literal, a wildcard, another
\* literal, one with a disallowed character after a valid one, and one of
\* MAX_PATTERN_LEN + 1 valid characters.
PatA == <<"A">>
PatWild == <<"_">>
PatB == <<"B">>
PatBadChar == <<"a", " ">>
PatTooLong == [j \in 1..(MAX_PATTERN_LEN + 1) |-> "A"]

PatternPool == {PatA, PatWild, PatB, PatBadChar, PatTooLong}

PatternLists == UNION {[1..n -> PatternPool] : n \in 0..MaxPatterns}

\* The first 8 bytes of the SHA-1 digest of a generated identity: all zero,
\* zero but for the lowest bit, and the top symbol equal to the code of 'B'.
HashZero == <<0, 0, 0, 0, 0, 0, 0, 0>>
HashLow == <<0, 0, 0, 0, 0, 0, 0, 1>>
HashB == <<4, 0, 0, 0, 0, 0, 0, 0>>

SampleHashes == {HashZero, HashLow, HashB}

\* Option<u64> and Option<String> are <<>> (None) or <<v>> (Some(v)); an
\* identity string either imports ("ok") or does not ("bad").
None == <<>>
Some(v) == <<v>>
IsSome(o) == o # <<>>
Unwrap(o) == o[1]

\* The targets of --level, which is the first offset scored as well.  They
\* and the offsets reached from them stay far below 2^64: start_off +
\* BATCH_SIZE does not overflow in the model.
LevelInputs == (0..MaxLevel) \cup {U8Modulus, U8Modulus + 1}

\* The runs of the vanity search: every combination of the options that
\* tool_find_pattern reads, with those it never reads left unset.  threads
\* is the size of the rayon pool: Some(t), or None on a machine of t cores.
FindOpts ==
    [exit_when_found : BOOLEAN, threads : 1..MaxThreads, patterns : PatternLists,
     bench : BOOLEAN, identity : {None}, export : {FALSE}, level : {None}]

\* The runs that decide between the tools: every combination of the options
\* main, tool_export and tool_improve_sec_level read.
ModeOpts ==
    [exit_when_found : {FALSE}, threads : {1},
     patterns : {<<>>, <<PatA>>, <<PatBadChar>>},
     bench : BOOLEAN, identity : {None, Some("bad"), Some("ok")},
     export : BOOLEAN, level : {None} \cup {Some(n) : n \in LevelInputs}]

OptsSet == FindOpts \cup ModeOpts

(***************************************************************************)
(* The state of a run.                                                     *)
(***************************************************************************)
VARIABLES
    opts,       \* the parsed command line (never changes)
    pc,         \* where the main thread is
    exit_code,  \* <<>> while running, <<code>> after std::process::exit
    stderr,     \* the error message printed by main, or ""
    stdout,     \* the lines printed so far
    data,       \* the RunData of the current find_pattern_parallel call
    bench_i,    \* i of the loop of bench()
    par,        \* the current find_pattern_parallel call and its parallel any()
    workers,    \* per pool thread: <<>> (idle) or the hash of its candidate
    stats,      \* what has happened so far (history)
    lvl,        \* the locals of tool_improve_sec_level
    pure        \* the input and results of the pure-function specification

progVars == <<opts, pc, exit_code, stderr, stdout, data, bench_i, par, workers, stats, lvl>>
vars == <<opts, pc, exit_code, stderr, stdout, data, bench_i, par, workers, stats, lvl, pure>>

Line(kind, a, b) == [kind |-> kind, a |-> a, b |-> b]

CountLines(kind) == Cardinality({j \in DOMAIN stdout : stdout[j].kind = kind})

ParIdle == [active |-> FALSE, bench |-> FALSE, remaining |-> 0, full |-> FALSE]

\* (0..FIND_PATTERN_BATCH_SIZE).into_par_iter().any(...) starts.
ParDispatch(bench) ==
    [active |-> TRUE, bench |-> bench, remaining |-> FIND_PATTERN_BATCH_SIZE, full |-> FALSE]

StatsInit ==
    [dispatched |-> 0,      \* batches dispatched, bench included
     searched |-> 0,        \* batches dispatched by find_pattern_parallel::<false>
     generated |-> 0,       \* candidates generated
     evaluated |-> 0,       \* candidates the matcher has run on in the search
     matching |-> 0,        \* of these, the candidates that satisfy a pattern
     batch_hits |-> 0,      \* of these, the candidates of the last batch dispatched
     bench_hit |-> FALSE]   \* a candidate of the bench satisfied its pattern

\* The locals of tool_improve_sec_level, and what its loop has done so far
\* (history): the score of the first offset, the batches scored, the calls
\* of get_hash_cash_level, the end of the last batch scored, whether a batch
\* did not start where the one before it ended, the greatest score drawn
\* for an offset of a batch, the score drawn for the offset best.offset,
\* and max_res and the best before it of the last batch.
NoScore == 0 - 1

LvlIdle ==
    [want_level |-> 0, start_off |-> 0, best |-> [level |-> 0, offset |-> 0],
     seed |-> [level |-> 0, offset |-> 0], batches |-> 0,
     scored |-> 0, upto |-> 0, gap |-> FALSE, max_seen |-> NoScore,
     at_best |-> NoScore,
     max_res |-> [level |-> 0, offset |-> 0], prev |-> [level |-> 0, offset |-> 0]]

PureIdle == [phase |-> "off"]

ProgInit ==
    /\ opts \in OptsSet
    /\ pc = "main"
    /\ exit_code = None
    /\ stderr = ""
    /\ stdout = <<>>
    /\ data = NoData
    /\ bench_i = 0
    /\ par = ParIdle
    /\ workers = [w \in 1..opts.threads |-> <<>>]
    /\ stats = StatsInit
    /\ lvl = LvlIdle

Init == ProgInit /\ pure = PureIdle

\* std::process::exit(match result { Ok(_) => 0, Err(err) => { eprintln!; 1 } })
ExitOk == pc' = "exited" /\ exit_code' = Some(0) /\ stderr' = ""
ExitErr(msg) == pc' = "exited" /\ exit_code' = Some(1) /\ stderr' = msg

(***************************************************************************)
(* main and the tools.                                                     *)
(***************************************************************************)
findUnchanged == UNCHANGED <<data, bench_i, par, workers, stats, lvl>>

\* Mutant of ToolExport: the identity is not required (the default key is
\* exported when none is given).
ToolExportWithoutIdentity ==
    /\ pc = "main"
    /\ opts.export
    /\ IF opts.identity # None /\ Unwrap(opts.identity) # "ok"
       THEN ExitErr("Failed to read identity") /\ UNCHANGED stdout
       ELSE ExitOk /\ stdout' = Append(stdout, Line("KEY", 0, 0))
    /\ findUnchanged
    /\ UNCHANGED <<opts, pure>>

\* main: opts.export; tool_export.
ToolExport ==
    /\ pc = "main"
    /\ opts.export
    /\ IF opts.identity = None
       THEN ExitErr("Requires an identity (-i) to export") /\ UNCHANGED stdout
       ELSE IF Unwrap(opts.identity) # "ok"
       THEN ExitErr("Failed to read identity") /\ UNCHANGED stdout
       ELSE ExitOk /\ stdout' = Append(stdout, Line("KEY", 0, 0))
    /\ findUnchanged
    /\ UNCHANGED <<opts, pure>>

\* main: no tool selected.
NoTool ==
    /\ pc = "main"
    /\ ~opts.export
    /\ ~(opts.patterns # <<>> \/ opts.bench)
    /\ ~IsSome(opts.level)
    /\ ExitErr("No patters given, please call with wanted uid strings")
    /\ findUnchanged
    /\ UNCHANGED <<opts, stdout, pure>>

\* main: patterns or bench; tool_find_pattern up to the call of bench().
ToolFindPattern ==
    /\ pc = "main"
    /\ ~opts.export
    /\ opts.patterns # <<>> \/ opts.bench
    /\ IF opts.bench
       THEN /\ stdout' = Append(stdout, Line("Benching", 0, 0))
            /\ pc' = "bench"
       ELSE /\ pc' = "compile"
            /\ UNCHANGED stdout
    /\ bench_i' = 0
    /\ UNCHANGED <<opts, exit_code, stderr, data, par, workers, stats, lvl, pure>>

\* bench(): one turn of `for i in 0..ITERS`, or the end of the function.
Bench ==
    /\ pc = "bench"
    /\ IF bench_i < ITERS
       THEN /\ stdout' = Append(stdout, Line("Iter", bench_i + 1, ITERS))
            /\ data' = BenchData
            /\ par' = ParDispatch(TRUE)
            /\ stats' = [stats EXCEPT !.dispatched = @ + 1]
            /\ pc' = "any"
       ELSE /\ stdout' = stdout \o <<Line("Elapsed", 0, 0), Line("Avg Run", 0, 0)>>
            /\ data' = NoData
            /\ pc' = "compile"
            /\ UNCHANGED <<par, stats>>
    /\ UNCHANGED <<opts, exit_code, stderr, bench_i, workers, lvl, pure>>

\* tool_find_pattern after the bench: the compilation of the patterns and
\* the call of find_pattern_parallel::<false>, whose first batch it starts.
Compile ==
    /\ pc = "compile"
    /\ IF opts.patterns = <<>>
       THEN /\ stdout' = Append(stdout, Line("No further patterns", 0, 0))
            /\ ExitOk
            /\ UNCHANGED <<data, par, stats>>
       ELSE LET r == CompileAll(opts.patterns, 1, <<>>)
                printed == [j \in 1..Len(r.patterns) |-> Line("Patterns", j, 0)]
            IN  /\ stdout' = stdout \o printed
                /\ IF ~r.ok
                   THEN /\ ExitErr("Invalid pattern input")
                        /\ UNCHANGED <<data, par, stats>>
                   ELSE /\ data' = [exit_when_found |-> opts.exit_when_found,
                                    patterns |-> r.patterns]
                        /\ par' = ParDispatch(FALSE)
                        /\ stats' = [stats EXCEPT !.dispatched = @ + 1,
                                                  !.searched = @ + 1,
                                                  !.batch_hits = 0]
                        /\ pc' = "any"
                        /\ UNCHANGED <<exit_code, stderr>>
    /\ UNCHANGED <<opts, bench_i, workers, lvl, pure>>

\* A pool thread takes the next trial of the batch, unless any() has its
\* answer already, and generates the key pair: find_pattern_sync up to the
\* hash of the identity.  The threads are interchangeable: of the idle ones
\* the lowest takes the trial.
TaskStart(w) ==
    /\ par.active
    /\ par.remaining > 0
    /\ ~par.full
    /\ workers[w] = <<>>
    /\ \A v \in 1..(w - 1) : workers[v] # <<>>
    /\ \E hash \in SampleHashes : workers' = [workers EXCEPT ![w] = hash]
    /\ par' = [par EXCEPT !.remaining = @ - 1]
    /\ stats' = [stats EXCEPT !.generated = @ + 1]
    /\ UNCHANGED <<opts, pc, exit_code, stderr, stdout, data, bench_i, lvl, pure>>

\* The thread runs the matcher on its candidate, prints the match and
\* returns; a true result stops any() from starting further trials.
TaskFinish(w) ==
    /\ par.active
    /\ workers[w] # <<>>
    /\ LET r == FindPatternSync(par.bench, data, workers[w])
           hit == \E k \in DOMAIN data.patterns : PatternMatches(workers[w], data.patterns[k])
       IN  /\ stdout' = IF r.printed THEN Append(stdout, Line("UID", 0, 0)) ELSE stdout
           /\ par' = [par EXCEPT !.full = @ \/ r.ret]
           /\ stats' = [stats EXCEPT
                  !.evaluated = IF par.bench THEN @ ELSE @ + 1,
                  !.matching = IF ~par.bench /\ hit THEN @ + 1 ELSE @,
                  !.batch_hits = IF ~par.bench /\ hit THEN @ + 1 ELSE @,
                  !.bench_hit = @ \/ (par.bench /\ hit)]
    /\ workers' = [workers EXCEPT ![w] = <<>>]
    /\ UNCHANGED <<opts, pc, exit_code, stderr, data, bench_i, lvl, pure>>

\* any() returns to find_pattern_parallel once no trial is running and the
\* batch is used up or answered; the loop returns or starts the next batch.
AnyReturns ==
    /\ pc = "any"
    /\ par.active
    /\ \A w \in DOMAIN workers : workers[w] = <<>>
    /\ par.remaining = 0 \/ par.full
    /\ LET found_any == par.full
       IN  IF par.bench
           THEN /\ bench_i' = bench_i + 1
                /\ par' = ParIdle
                /\ pc' = "bench"
                /\ UNCHANGED <<exit_code, stderr, stdout, stats>>
           ELSE IF found_any
           THEN /\ stdout' = Append(stdout, Line("Done", 0, 0))
                /\ par' = ParIdle
                /\ ExitOk
                /\ UNCHANGED <<bench_i, stats>>
           ELSE /\ stats.searched < MaxBatches
                /\ par' = ParDispatch(FALSE)
                /\ stats' = [stats EXCEPT !.dispatched = @ + 1,
                                          !.searched = @ + 1,
                                          !.batch_hits = 0]
                /\ UNCHANGED <<pc, exit_code, stderr, stdout, bench_i>>
    /\ UNCHANGED <<opts, data, workers, lvl, pure>>

\* main: a level and nothing else; tool_improve_sec_level up to its loop.
ToolImproveSecLevel ==
    /\ pc = "main"
    /\ ~opts.export
    /\ ~(opts.patterns # <<>> \/ opts.bench)
    /\ IsSome(opts.level)
    /\ IF opts.identity = None
       THEN ExitErr("Requires an identity (-i) to export") /\ UNCHANGED lvl
       ELSE IF Unwrap(opts.identity) # "ok"
       THEN ExitErr("Failed to read identity") /\ UNCHANGED lvl
       ELSE \E level \in 0..MaxLevel :
               LET start_off == Unwrap(opts.level)
                   best == [level |-> level, offset |-> start_off]
               IN  /\ lvl' = [want_level |-> AsU8(Unwrap(opts.level)),
                              start_off |-> start_off,
                              best |-> best, seed |-> best,
                              batches |-> 0,
                              scored |-> 1, upto |-> start_off, gap |-> FALSE,
                              max_seen |-> NoScore, at_best |-> level,
                              max_res |-> best, prev |-> best]
                   /\ pc' = "level"
                   /\ UNCHANGED <<exit_code, stderr>>
    /\ UNCHANGED <<opts, stdout, data, bench_i, par, workers, stats, pure>>

SetMax(S) == CHOOSE x \in S : \A y \in S : y <= x

\* One turn of the loop of tool_improve_sec_level: the batch is scored, the
\* best is replaced and reported, and the loop breaks or moves on.
LevelBatch ==
    /\ pc = "level"
    /\ lvl.batches < MaxLevelBatches
    /\ \E sc \in [lvl.start_off..(lvl.start_off + BATCH_SIZE - 1) -> 0..MaxLevel] :
       \E m \in DOMAIN sc :
          /\ lvl.batches = 0 => sc[lvl.seed.offset] = lvl.seed.level
          /\ IsMaxOf(sc, m)
          /\ LET improved == Improves(sc[m], lvl.best.level)
                 best == IF improved THEN [level |-> sc[m], offset |-> m] ELSE lvl.best
                 out1 == IF improved
                         THEN Append(stdout, Line("LEVEL", best.level, best.offset))
                         ELSE stdout
                 start_off == lvl.start_off + BATCH_SIZE
                 seen == [lvl EXCEPT
                     !.best = best,
                     !.batches = @ + 1,
                     !.scored = @ + Cardinality(DOMAIN sc),
                     !.gap = @ \/ lvl.start_off # lvl.upto,
                     !.upto = lvl.start_off + Cardinality(DOMAIN sc),
                     !.max_seen = SetMax({@} \cup {sc[o] : o \in DOMAIN sc}),
                     !.at_best = IF best.offset \in DOMAIN sc THEN sc[best.offset]
                                 ELSE IF best.offset = lvl.best.offset THEN @
                                 ELSE NoScore,
                     !.max_res = [level |-> sc[m], offset |-> m],
                     !.prev = lvl.best]
             IN  IF improved /\ Reached(best.level, lvl.want_level)
                 THEN /\ lvl' = seen
                      /\ stdout' = out1
                      /\ ExitOk
                 ELSE /\ lvl' = [seen EXCEPT !.start_off = start_off]
                      /\ stdout' = IF StepDue(start_off)
                                   THEN Append(out1, Line("STEP", (start_off \div BATCH_SIZE) * BATCH_SIZE, 0))
                                   ELSE out1
                      /\ UNCHANGED <<pc, exit_code, stderr>>
    /\ UNCHANGED <<opts, data, bench_i, par, workers, stats, pure>>

Next ==
    \/ ToolExport
    \/ NoTool
    \/ ToolFindPattern
    \/ Bench
    \/ Compile
    \/ \E w \in DOMAIN workers : TaskStart(w)
    \/ \E w \in DOMAIN workers : TaskFinish(w)
    \/ AnyReturns
    \/ ToolImproveSecLevel
    \/ LevelBatch

Spec == Init /\ [][Next]_vars

(***************************************************************************)
(* The compiler and the matcher as pure functions: a second specification, *)
(* whose initial states draw one pattern string and one hash from wider    *)
(* sets and whose actions apply CompilePattern and FindPatternSync.        *)
(***************************************************************************)
SampleChars == {"A", "B", "z", "9", "+", "/", "_", "?", " ", "-"}

ShortInputs == UNION {[1..n -> SampleChars] : n \in 0..MaxShort}

Rep(c, n) == [j \in 1..n |-> c]

\* Of MAX_PATTERN_LEN symbols, all c but d at position i (from 1).
AllBut(c, d, i) == [j \in 1..MAX_PATTERN_LEN |-> IF j = i THEN d ELSE c]

\* Every length up to one past the limit, all literal or all wildcard; one
\* literal or one wildcard at each position of a pattern of full length.
LongInputs ==
    {Rep(c, n) : c \in {"B", "/", "_", "?"}, n \in 1..(MAX_PATTERN_LEN + 1)}
    \cup {AllBut("_", "/", i) : i \in 1..MAX_PATTERN_LEN}
    \cup {AllBut("/", "?", i) : i \in 1..MAX_PATTERN_LEN}
    \cup {<<"A", "B", "_", "_">>}

PureInputs == ShortInputs \cup LongInputs

\* A hash prefix given by its ten 6-bit symbols and its low 4 bits: the
\* symbols are the codes of str, then fill.
GroupBits(i, c) == {58 - (6 * i) + b : b \in {j \in 0..5 : BitOf(c, j) = 1}}

WordOfSymbols(str, fill, low) ==
    UNION {GroupBits(i, IF i < Len(str) THEN B64Code(str[i + 1]) ELSE fill) : i \in 0..9}
        \cup {b \in 0..3 : BitOf(low, b) = 1}

ByteOfWord(v, n) ==
    LET b(j) == IF (8 * (8 - n) + j) \in v THEN Pow2[j] ELSE 0
    IN  b(0) + b(1) + b(2) + b(3) + b(4) + b(5) + b(6) + b(7)

BytesOfWord(v) == [n \in 1..8 |-> ByteOfWord(v, n)]

HashStrings ==
    UNION {[1..n -> {"A", "B", "/"}] : n \in 0..2}
        \cup {Rep(c, n) : c \in {"A", "B", "/"}, n \in {MAX_PATTERN_LEN - 1, MAX_PATTERN_LEN}}

PureHashes ==
    {BytesOfWord(WordOfSymbols(str, fill, low)) :
        str \in HashStrings, fill \in {0, 63}, low \in {0, 9}}

\* The options of a run that is not started.
OptsOff ==
    [exit_when_found |-> FALSE, threads |-> 1, patterns |-> <<>>, bench |-> FALSE,
     identity |-> None, export |-> FALSE, level |-> None]

PureInit ==
    /\ \E inp \in PureInputs, hash \in PureHashes :
          pure = [phase |-> "input", inp |-> inp, hash |-> hash,
                  result |-> [ok |-> FALSE], matched |-> FALSE]
    /\ opts = OptsOff
    /\ pc = "off"
    /\ exit_code = None
    /\ stderr = ""
    /\ stdout = <<>>
    /\ data = NoData
    /\ bench_i = 0
    /\ par = ParIdle
    /\ workers = [w \in 1..opts.threads |-> <<>>]
    /\ stats = StatsInit
    /\ lvl = LvlIdle

\* The body of the loop of tool_find_pattern, on pure.inp.
PureCompile ==
    /\ pure.phase = "input"
    /\ pure' = [pure EXCEPT !.phase = "compiled", !.result = CompilePattern(pure.inp)]
    /\ UNCHANGED progVars

\* find_pattern_sync::<false> on a candidate of hash pure.hash, the compiled
\* pattern being the only one.
PureMatch ==
    /\ pure.phase = "compiled"
    /\ pure.result.ok
    /\ LET d == [exit_when_found |-> TRUE, patterns |-> <<pure.result.pattern>>]
       IN  pure' = [pure EXCEPT !.phase = "matched",
                                !.matched = FindPatternSync(FALSE, d, pure.hash).printed]
    /\ UNCHANGED progVars

PureNext == PureCompile \/ PureMatch

SpecPure == PureInit /\ [][PureNext]_vars

(***************************************************************************)
(* The loop of tool_improve_sec_level with its batch of full size, for the *)
(* STEP markers: start_off and the marker test are computed as the code    *)
(* computes them, on BATCH_SIZE_FULL offsets a turn.  The scores of a      *)
(* batch are not drawn one by one: max_res is, as the first offset of the  *)
(* batch with a level of StepLevels.                                       *)
(***************************************************************************)
BATCH_SIZE_FULL == 500000

StepLevels == 0..1
StepStarts == {0, 1, U8Modulus - 1}

StepInit ==
    /\ \E start \in StepStarts :
          /\ opts = [OptsOff EXCEPT !.identity = Some("ok"), !.level = Some(start)]
          /\ LET best == [level |-> 0, offset |-> start]
             IN  lvl = [want_level |-> AsU8(start), start_off |-> start,
                        best |-> best, seed |-> best, batches |-> 0,
                        scored |-> 1, upto |-> start, gap |-> FALSE,
                        max_seen |-> NoScore, at_best |-> 0,
                        max_res |-> best, prev |-> best]
    /\ pc = "level"
    /\ exit_code = None
    /\ stderr = ""
    /\ stdout = <<>>
    /\ data = NoData
    /\ bench_i = 0
    /\ par = ParIdle
    /\ workers = [w \in 1..opts.threads |-> <<>>]
    /\ stats = StatsInit
    /\ pure = PureIdle

\* One turn of the loop on a batch of full size.
LevelBatchFull ==
    /\ pc = "level"
    /\ lvl.batches < MaxStepTurns
    /\ \E max_level \in StepLevels :
          /\ lvl.batches = 0 => max_level >= lvl.seed.level
          /\ LET max_res == [level |-> max_level, offset |-> lvl.start_off]
                 improved == Improves(max_res.level, lvl.best.level)
                 best == IF improved THEN max_res ELSE lvl.best
                 out1 == IF improved
                         THEN Append(stdout, Line("LEVEL", best.level, best.offset))
                         ELSE stdout
                 start_off == lvl.start_off + BATCH_SIZE_FULL
                 seen == [lvl EXCEPT
                     !.best = best,
                     !.batches = @ + 1,
                     !.scored = @ + BATCH_SIZE_FULL,
                     !.gap = @ \/ lvl.start_off # lvl.upto,
                     !.upto = lvl.start_off + BATCH_SIZE_FULL,
                     !.max_seen = SetMax({@, max_level}),
                     !.at_best = best.level,
                     !.max_res = max_res,
                     !.prev = lvl.best]
             IN  IF improved /\ Reached(best.level, lvl.want_level)
                 THEN /\ lvl' = seen
                      /\ stdout' = out1
                      /\ ExitOk
                 ELSE /\ lvl' = [seen EXCEPT !.start_off = start_off]
                      /\ stdout' = IF StepDueAt(start_off, BATCH_SIZE_FULL)
                                   THEN Append(out1, Line("STEP", (start_off \div BATCH_SIZE_FULL) * BATCH_SIZE_FULL, 0))
                                   ELSE out1
                      /\ UNCHANGED <<pc, exit_code, stderr>>
    /\ UNCHANGED <<opts, data, bench_i, par, workers, stats, pure>>

StepNext == LevelBatchFull

SpecStep == StepInit /\ [][StepNext]_vars

(***************************************************************************)
(* Properties.                                                             *)
(***************************************************************************)
\* The tool main hands the run to.
Tool ==
    IF opts.export THEN "export"
    ELSE IF opts.patterns # <<>> \/ opts.bench THEN "find"
    ELSE IF IsSome(opts.level) THEN "level"
    ELSE "none"

ExitedWith(code) == pc = "exited" /\ exit_code = Some(code)

\* C9: In the level maximizer the running best score never decreases from
\* one batch to the next.
C9_BestNeverDecreases == [][lvl'.best.level >= lvl.best.level]_vars

\* A batch has replaced the running best, and a later batch has been scored.
C9_Witness ==
    /\ pc = "level"
    /\ lvl.batches >= 2
    /\ lvl.best.level > lvl.seed.level
    /\ lvl.best.offset < lvl.start_off - BATCH_SIZE

\* The vanity search proper (find_pattern_parallel::<false>) is running or
\* has run.
SearchStarted == stats.searched > 0

\* C1: With exit_when_found = true the search stops after the first match
\* and exactly one match report (one UID line) is emitted in the whole run.
C1_ExactlyOneReport ==
    (Tool = "find" /\ opts.exit_when_found) =>
        /\ CountLines("UID") <= 1
        /\ (SearchStarted /\ ExitedWith(0)) => CountLines("UID") = 1

\* C2: Level improvement with target_level = 0 ends at once, without any
\* batch having to improve on the seed: once a batch has been scored the run
\* has ended, and it ends with the score of the starting offset.
C2_TargetZeroImmediate ==
    (Tool = "level" /\ opts.level = Some(0) /\ opts.identity = Some("ok")) =>
        /\ lvl.batches >= 1 => ExitedWith(0)
        /\ ExitedWith(0) => lvl.best.level = lvl.seed.level

\* C5: With exit_when_found = false the search loop never returns: every
\* batch runs all its trials, another batch follows it, and every matching
\* candidate is reported.
C5_MiningNeverStops ==
    (Tool = "find" /\ ~opts.exit_when_found /\ SearchStarted) =>
        /\ pc = "any" /\ par.active /\ ~par.bench /\ ~par.full
        /\ CountLines("Done") = 0
        /\ CountLines("UID") = stats.matching
        /\ stats.evaluated + par.remaining
             + Cardinality({w \in DOMAIN workers : workers[w] # <<>>})
           = stats.searched * FIND_PATTERN_BATCH_SIZE

\* A batch with a matching candidate has been followed by another batch.
C5_Witness ==
    /\ Tool = "find" /\ ~opts.exit_when_found
    /\ stats.searched = 2
    /\ stats.matching >= 1
    /\ stats.matching < stats.evaluated
    /\ CountLines("UID") >= 1

\* C6: In improve-level mode the run does not end successfully until a level
\* greater than or equal to the requested target (a u64) has been found and
\* reported.
C6_TargetReached ==
    (Tool = "level" /\ ExitedWith(0)) =>
        /\ lvl.best.level >= Unwrap(opts.level)
        /\ \E j \in DOMAIN stdout :
              stdout[j].kind = "LEVEL" /\ stdout[j].a >= Unwrap(opts.level)

\* A pattern string the compiler must reject, in the words of the claim: a
\* character outside the base64 alphabet and the wildcard markers, or more
\* than 10 symbols.
AllowedChars == Range(B64Alphabet) \cup {"_", "?"}
InvalidPatternString(inp) ==
    Len(inp) > 10 \/ \E j \in DOMAIN inp : inp[j] \notin AllowedChars
SomeInvalidPattern == \E k \in DOMAIN opts.patterns : InvalidPatternString(opts.patterns[k])

\* C7 as stated: with an invalid pattern among those supplied the exit code
\* is 1 and the vanity search is never started.
C7_InvalidPatternFails ==
    SomeInvalidPattern =>
        /\ pc = "exited" => exit_code = Some(1)
        /\ ~SearchStarted
        /\ CountLines("UID") = 0

\* C7, amended: unless the export option is set (main then never looks at
\* the patterns), an invalid pattern among those supplied makes the
\* compilation fail: exit code 1 with the error "Invalid pattern input", and
\* the vanity search is never started for any pattern of the list.
C7_InvalidPatternFailsUnlessExport ==
    (~opts.export /\ SomeInvalidPattern) =>
        /\ pc = "exited" => (exit_code = Some(1) /\ stderr = "Invalid pattern input")
        /\ ~SearchStarted
        /\ data.patterns \in {<<>>, BenchData.patterns}
        /\ CountLines("UID") = 0
        /\ CountLines("Done") = 0

\* A run with a valid pattern before an invalid one has been rejected.
C7_Witness ==
    /\ ~opts.export
    /\ Len(opts.patterns) >= 2
    /\ ~InvalidPatternString(opts.patterns[1])
    /\ InvalidPatternString(opts.patterns[2])
    /\ ExitedWith(1)
    /\ CountLines("Patterns") = 1

\* C8: No batch of trial tasks is dispatched and no candidate is generated
\* before an invalid pattern is rejected, whatever the options.
C8_NoTrialBeforeRejection ==
    stderr = "Invalid pattern input" =>
        stats.dispatched = 0 /\ stats.generated = 0

\* The lists of patterns that are data.patterns in another order.
PermutationsOf(seq) ==
    {[i \in DOMAIN seq |-> seq[f[i]]] : f \in Permutations(DOMAIN seq)}

\* C10: Whether a candidate counts as a match is the same for every
\* permutation of the pattern list.
C10_MatchOrderIrrelevant ==
    \A w \in DOMAIN workers :
        workers[w] # <<>> =>
            \A q \in PermutationsOf(data.patterns) :
                (FindPatternSync(FALSE, [data EXCEPT !.patterns = q], workers[w]).index # 0)
                    <=> (FindPatternSync(FALSE, data, workers[w]).index # 0)

\* A candidate that matches the second pattern of the list and not the first.
C10_Witness ==
    \E w \in DOMAIN workers :
        /\ workers[w] # <<>>
        /\ Len(data.patterns) >= 2
        /\ data.patterns[1] # data.patterns[2]
        /\ FindPatternSync(FALSE, data, workers[w]).index = 2

\* The symbol (6-bit group) i of a word: bits [58 - 6i, 63 - 6i].
GroupOf(v, i) == {b \in 0..5 : (58 - (6 * i) + b) \in v}
FullGroup == 0..5

\* The word a hash prefix is, bit p being bit p % 8 of byte 7 - p \div 8.
WordOfHash(hash) == {p \in BitPos : (hash[8 - (p \div 8)] \div Pow2[p % 8]) % 2 = 1}

CodeBits(c) == {b \in 0..5 : (B64Code(c) \div Pow2[b]) % 2 = 1}

IsWildcardSymbol(c) == c \in {"_", "?"}
AllWildcards(inp) == \A j \in DOMAIN inp : IsWildcardSymbol(inp[j])
NoWildcards(inp) ==
    /\ Len(inp) \in 1..10
    /\ \A j \in DOMAIN inp : inp[j] \in Range(B64Alphabet)

\* C3 as stated: a pattern without wildcards matches exactly one 64-bit
\* prefix value (its own text, which it does match): a hash that matches is
\* that value.
C3_LiteralMatchesOneValue ==
    (pure.phase = "matched" /\ NoWildcards(pure.inp) /\ pure.matched) =>
        WordOfHash(pure.hash) = pure.result.pattern.text

\* C3, amended: a pattern of wildcards only matches every 64-bit prefix; a
\* pattern of n literals and no wildcard (n in 1..10) constrains the leading
\* 6n bits only (its mask has 6n bits, none among the low 4) and matches
\* exactly the prefixes whose leading n symbols are the codes of its
\* characters: one value of the leading 6n bits, 2^(64 - 6n) values of the
\* 64-bit prefix.
C3_WildcardsMatchAllLiteralsMatchPrefix ==
    /\ (pure.phase = "matched" /\ AllWildcards(pure.inp)) => pure.matched
    /\ (pure.phase = "matched" /\ NoWildcards(pure.inp)) =>
          /\ Cardinality(pure.result.pattern.mask) = 6 * Len(pure.inp)
          /\ pure.result.pattern.mask \cap (0..3) = {}
          /\ pure.matched <=>
                \A i \in 0..(Len(pure.inp) - 1) :
                    GroupOf(WordOfHash(pure.hash), i) = CodeBits(pure.inp[i + 1])

\* A pattern of 10 literals has matched a hash that is not its text.
C3_Witness ==
    /\ pure.phase = "matched"
    /\ NoWildcards(pure.inp) /\ Len(pure.inp) = 10
    /\ pure.matched
    /\ WordOfHash(pure.hash) # pure.result.pattern.text
    /\ pure.result.pattern.text # {}

\* C4: Every valid wildcard string of at most 10 characters compiles to a
\* pattern with text & mask = text whose mask has, for each symbol position
\* i in 0..9, the 6-bit group at bits [58 - 6i, 63 - 6i] fully set when
\* position i of the input holds a literal, and zero when it holds a
\* wildcard or lies beyond the input.
C4_MaskMarksLiterals ==
    (pure.phase # "input" /\ ~InvalidPatternString(pure.inp)) =>
        /\ pure.result.ok
        /\ And64(pure.result.pattern.text, pure.result.pattern.mask)
             = pure.result.pattern.text
        /\ \A i \in 0..9 :
              GroupOf(pure.result.pattern.mask, i) =
                 IF i < Len(pure.inp) /\ ~IsWildcardSymbol(pure.inp[i + 1])
                 THEN FullGroup ELSE {}

\* A pattern of full length with literals and wildcards has been compiled.
C4_Witness ==
    /\ pure.phase = "compiled"
    /\ pure.result.ok
    /\ Len(pure.inp) = 10
    /\ \E i, j \in 1..10 : IsWildcardSymbol(pure.inp[i]) /\ ~IsWildcardSymbol(pure.inp[j])
    /\ pure.result.pattern.text # {}

\* C11: In improve-level or export mode with no identity supplied, and when
\* no mode is selected at all, the run fails with an error and exit code 1
\* before any work begins: no score is computed, no batch is dispatched and
\* nothing is printed to standard output.
C11_MissingInputFailsFirst ==
    ((Tool \in {"export", "level"} /\ opts.identity = None) \/ Tool = "none") =>
        /\ pc \in {"main", "exited"}
        /\ pc = "exited" => (exit_code = Some(1) /\ stderr # "")
        /\ stdout = <<>>
        /\ lvl.scored = 0
        /\ stats.dispatched = 0 /\ stats.generated = 0
        /\ ~par.active

\* A run in improve-level mode without an identity has ended.
C11_Witness ==
    /\ Tool = "level"
    /\ opts.identity = None
    /\ ExitedWith(1)
    /\ stderr = "Requires an identity (-i) to export"

\* The LEVEL lines of standard output, in the order they were printed.
LevelLines == SelectSeq(stdout, LAMBDA l : l.kind = "LEVEL")

LastLevelIsBest ==
    /\ LevelLines # <<>>
    /\ LevelLines[Len(LevelLines)] = Line("LEVEL", lvl.best.level, lvl.best.offset)

\* C12: In the level maximizer, whenever the maximum of a batch strictly
\* exceeds the running best, the running best is replaced by that maximum
\* and reported; and whenever the loop terminates, the running best it ends
\* with has a level of at least want_level (the 8-bit target) and was the
\* last level reported.
C12_ReplacedReportedAndReached ==
    (Tool = "level" /\ lvl.batches >= 1) =>
        /\ lvl.max_res.level > lvl.prev.level =>
               (lvl.best = lvl.max_res /\ LastLevelIsBest)
        /\ pc = "exited" =>
               /\ exit_code = Some(0)
               /\ lvl.best.level >= lvl.want_level
               /\ LastLevelIsBest

\* The loop has ended in its second batch or later, on a target above zero,
\* and an earlier batch had improved the best without reaching the target.
C12_Witness ==
    /\ Tool = "level"
    /\ ExitedWith(0)
    /\ lvl.want_level >= 2
    /\ lvl.batches >= 2
    /\ Len(LevelLines) >= 2
    /\ lvl.max_res.level > lvl.prev.level
    /\ lvl.best = lvl.max_res

\* The offsets scored by the batches completed so far.
ScoredRange == lvl.seed.offset .. (lvl.upto - 1)

\* C13: In the level maximizer, after n completed batches the running best
\* level equals the maximum score over all offsets in
\* [start, start + n * BATCH_SIZE) (the batches are contiguous and do not
\* overlap, so each offset of the range is scored in exactly one batch), and
\* the best offset is an offset of that range whose score equals the best
\* level.
C13_BestIsMaxOfRange ==
    (Tool = "level" /\ lvl.batches >= 1) =>
        /\ ~lvl.gap
        /\ lvl.upto = lvl.seed.offset + (lvl.batches * BATCH_SIZE)
        /\ lvl.scored = 1 + (lvl.batches * BATCH_SIZE)
        /\ lvl.best.level = lvl.max_seen
        /\ lvl.best.offset \in ScoredRange
        /\ lvl.at_best = lvl.best.level

\* Three batches are complete, the best was found in the second one and the
\* third one, whose maximum is lower, left it alone.
C13_Witness ==
    /\ Tool = "level"
    /\ lvl.batches = 3
    /\ lvl.best.offset >= lvl.seed.offset + BATCH_SIZE
    /\ lvl.best.offset < lvl.seed.offset + (2 * BATCH_SIZE)
    /\ lvl.best.level > lvl.seed.level
    /\ lvl.max_res.level < lvl.best.level

\* C14: With exit_when_found = true, outside the bench, the search loop
\* returns only after a batch in which at least one candidate matched and
\* was reported; after a batch in which no candidate matched another batch is
\* always dispatched (the loop does not return), and after a batch that
\* contains a match no further batch is dispatched (every match of the run
\* belongs to the last batch dispatched).
C14_ReturnsAfterMatchingBatchOnly ==
    (Tool = "find" /\ opts.exit_when_found /\ SearchStarted) =>
        /\ pc = "exited" =>
               /\ exit_code = Some(0)
               /\ stats.batch_hits >= 1
               /\ CountLines("UID") >= 1
               /\ stdout[Len(stdout)] = Line("Done", 0, 0)
        /\ stats.matching = stats.batch_hits
        /\ CountLines("UID") = stats.batch_hits
        /\ (pc = "any" /\ stats.batch_hits >= 1) => par.full

\* The loop has returned from its second batch: the first one had no match.
C14_Witness ==
    /\ Tool = "find"
    /\ opts.exit_when_found
    /\ ~opts.bench
    /\ ExitedWith(0)
    /\ stats.searched = 2
    /\ stats.evaluated > FIND_PATTERN_BATCH_SIZE
    /\ stats.batch_hits >= 1

\* C15: In bench mode each call of the search loop executes exactly one full
\* batch of FIND_PATTERN_BATCH_SIZE trials, with no early stop and no match
\* report even when a candidate satisfies the bench pattern, so that the
\* benchmark executes exactly ITERS * FIND_PATTERN_BATCH_SIZE trials.
C15_BenchRunsFullBatches ==
    (Tool = "find" /\ opts.bench) =>
        /\ pc = "bench" =>
               /\ stats.dispatched = bench_i
               /\ stats.generated = bench_i * FIND_PATTERN_BATCH_SIZE
        /\ (pc = "any" /\ par.bench) =>
               /\ ~par.full
               /\ stats.dispatched = bench_i + 1
               /\ stats.generated + par.remaining =
                      (bench_i + 1) * FIND_PATTERN_BATCH_SIZE
        /\ pc = "compile" =>
               /\ bench_i = ITERS
               /\ stats.dispatched = ITERS
               /\ stats.generated = ITERS * FIND_PATTERN_BATCH_SIZE
        /\ (pc \in {"bench", "compile"} \/ par.bench) => CountLines("UID") = 0

\* The bench has returned, and one of its candidates satisfied its pattern.
C15_Witness ==
    /\ Tool = "find"
    /\ opts.bench
    /\ pc = "compile"
    /\ stats.bench_hit
    /\ stats.generated = ITERS * FIND_PATTERN_BATCH_SIZE

\* C16: For every valid wildcard string of at most 10 symbols, the compiled
\* text has at each literal position i a 6-bit group (bits 58 - 6i to
\* 63 - 6i) equal to the base64 code of that character, zero at the wildcard
\* and the padded positions, and zero in the low 4 bits; in particular
\* "AB__" yields a mask whose groups 0 and 1 are fully set and whose groups
\* 2 and 3 are clear, and a text whose groups 0 and 1 are the codes of 'A'
\* and 'B'.
C16_TextHoldsLiteralCodes ==
    (pure.phase # "input" /\ ~InvalidPatternString(pure.inp)) =>
        /\ pure.result.ok
        /\ \A i \in 0..9 :
              GroupOf(pure.result.pattern.text, i) =
                 IF i < Len(pure.inp) /\ ~IsWildcardSymbol(pure.inp[i + 1])
                 THEN CodeBits(pure.inp[i + 1]) ELSE {}
        /\ pure.result.pattern.text \cap (0..3) = {}
        /\ pure.inp = <<"A", "B", "_", "_">> =>
              /\ GroupOf(pure.result.pattern.mask, 0) = FullGroup
              /\ GroupOf(pure.result.pattern.mask, 1) = FullGroup
              /\ GroupOf(pure.result.pattern.mask, 2) = {}
              /\ GroupOf(pure.result.pattern.mask, 3) = {}
              /\ GroupOf(pure.result.pattern.text, 0) = CodeBits("A")
              /\ GroupOf(pure.result.pattern.text, 1) = CodeBits("B")
              /\ pure.result.pattern.text = {52}

\* "AB__" has been compiled.
C16_Witness ==
    /\ pure.phase = "compiled"
    /\ pure.inp = <<"A", "B", "_", "_">>
    /\ pure.result.ok
    /\ pure.result.pattern.text # {}

\* The patterns of the list that the hash satisfies.
Satisfied(hash) ==
    {k \in DOMAIN data.patterns : PatternMatches(hash, data.patterns[k])}

\* C18: A single candidate produces at most one match report even when its
\* hash satisfies several patterns: the patterns are tested in input order
\* and the evaluation stops at the first satisfied pattern, so that the
\* search has printed one UID line for each candidate that satisfied a
\* pattern.
C18_OneReportPerCandidate ==
    /\ \A w \in DOMAIN workers :
           (workers[w] # <<>> /\ ~par.bench) =>
               LET r == FindPatternSync(FALSE, data, workers[w])
                   sat == Satisfied(workers[w])
               IN  /\ r.printed <=> sat # {}
                   /\ r.index = IF sat = {} THEN 0
                                ELSE CHOOSE k \in sat : \A j \in sat : k <= j
    /\ CountLines("UID") = stats.matching

\* A candidate that satisfies two different patterns is about to be tested.
C18_WitnessInFlight ==
    \E w \in DOMAIN workers :
        /\ workers[w] # <<>>
        /\ ~par.bench
        /\ Satisfied(workers[w]) = {1, 2}
        /\ data.patterns[1] # data.patterns[2]

\* Every candidate satisfies both patterns of the list; two candidates have
\* been tested, and two reports printed.
C18_Witness ==
    /\ Len(data.patterns) = 2
    /\ \A k \in DOMAIN data.patterns : data.patterns[k].mask = {}
    /\ stats.evaluated = 2
    /\ stats.matching = 2
    /\ CountLines("UID") = 2

\* The STEP lines of standard output, in the order they were printed, and
\* the number of offsets between a marker and the next one.
StepLines == SelectSeq(stdout, LAMBDA l : l.kind = "STEP")
StepGap(j) == StepLines[j + 1].a - StepLines[j].a

\* C17 as stated: the progress markers of the level maximizer are emitted
\* at a fixed period: the number of offsets processed between any two
\* consecutive markers is the same constant, whatever the starting offset
\* and whether or not a batch improved.
C17_MarkersAtFixedPeriod ==
    \A i, j \in 1..(Len(StepLines) - 1) : StepGap(i) = StepGap(j)

\* C17, amended: a marker is emitted at the end of exactly those turns in
\* which start_off passes or reaches a multiple of 2^27, whether or not the
\* batch improved; the number of offsets between two consecutive markers is
\* 268 or 269 batches, not one constant.
C17_MarkersAtModulusCrossings ==
    pc \in {"level", "exited"} =>
        /\ Len(StepLines) =
               (lvl.start_off \div StepModulus) - (lvl.seed.offset \div StepModulus)
        /\ \A j \in 1..(Len(StepLines) - 1) :
               StepGap(j) \in {(StepModulus \div BATCH_SIZE_FULL) * BATCH_SIZE_FULL,
                               ((StepModulus \div BATCH_SIZE_FULL) + 1) * BATCH_SIZE_FULL}
        /\ \A j \in 1..Len(StepLines) :
               StepLines[j].a % StepModulus < BATCH_SIZE_FULL

\* Three markers have been printed, the two gaps differ, and a batch between
\* the markers improved the best.
C17_Witness ==
    /\ Len(StepLines) = 3
    /\ StepGap(1) # StepGap(2)
    /\ \E i, j, k \in DOMAIN stdout :
          /\ i < j /\ j < k
          /\ stdout[i].kind = "STEP"
          /\ stdout[j].kind = "LEVEL"
          /\ stdout[k].kind = "STEP"

====
